---- MODULE Spec2Model ----
(***************************************************************************)
(* A model of gowinlog's event.go: the wrappers around the Windows event   *)
(* log API (wevtapi.dll), the two-phase render/format helpers, the         *)
(* subscription constructors and the callback trampoline.                  *)
(*                                                                         *)
(* The native service is not part of the repository.  It is modelled as a  *)
(* state (the handle table, the channel logs, the events' render sizes)    *)
(* and each Evt* wrapper is an operator over that state that returns what  *)
(* the wrapper returns: err = NoError when the call's r1 is non-zero, the  *)
(* Errno otherwise.                                                        *)
(***************************************************************************)
EXTENDS Integers, Sequences, FiniteSets, TLC

(***************************************************************************)
(* Bounds of the model.                                                    *)
(***************************************************************************)
\* largest buffer size (bytes or UTF-16 units) the native layer asks for
MaxNeed == 2
\* number of event handles the render environment holds
MaxEvents == 1
\* records the channels' logs receive
MaxRec == 3
\* native handles (subscriptions, bookmarks, events, result sets) handed out
MaxHandles == 5
\* subscriptions opened while the logs are tailed
MaxSubs == 1
\* subscriptions opened while the trampolines are driven directly
MaxBridgeSubs == 2
\* notifications the native layer hands to the trampolines
MaxNotify == 2
\* cancel and close calls the consumer makes
MaxCalls == 3

(***************************************************************************)
(* Program constants.                                                      *)
(***************************************************************************)
\* a nil error: the wrappers return nil when r1 # 0
NoError == 0
\* errno 122, ERROR_INSUFFICIENT_BUFFER, the only errno the source names
ERROR_INSUFFICIENT_BUFFER == 122
\* EVT_RENDER_FLAGS
EvtRenderEventValues == 0
EvtRenderEventXml == 1
\* EVT_FORMAT_MESSAGE_FLAGS
EvtFormatMessageEvent == 1
\* EVT_SUBSCRIBE_FLAGS
EvtSubscribeToFutureEvents == 1
EvtSubscribeStartAtOldestRecord == 2
EvtSubscribeStartAfterBookmark == 3
\* EVT_SUBSCRIBE_NOTIFY_ACTION
EvtSubscribeActionError == 0
EvtSubscribeActionDeliver == 1
\* EVT_QUERY_FLAGS
EvtQueryChannelPath == 1

\* Errnos of the native layer other than the buffer-size signal, by their
\* Windows names, and the EINVAL of syscall.UTF16PtrFromString.
Errno ==
    [ERROR_ACCESS_DENIED |-> 5, ERROR_INVALID_HANDLE |-> 6,
     ERROR_INVALID_PARAMETER |-> 87, ERROR_NO_MORE_ITEMS |-> 259,
     ERROR_NOT_FOUND |-> 1168,
     ERROR_TIMEOUT |-> 1460, ERROR_EVT_CHANNEL_NOT_FOUND |-> 15007,
     EINVAL |-> 536870951]
AccessDenied == Errno.ERROR_ACCESS_DENIED
InvalidHandle == Errno.ERROR_INVALID_HANDLE
InvalidParameter == Errno.ERROR_INVALID_PARAMETER
OtherErrnos == {AccessDenied, InvalidHandle}

\* the channels the native service holds, and the names a caller may pass
Channels == {"Application", "System"}
NulName == "App<NUL>"
ChannelInputs == Channels \cup {NulName, "NoSuchChannel"}
Sinks == {"sinkA", "sinkB"}

\* the absent value of a (value, error) pair: Go's nil slice or ""
Nil == <<>>

VARIABLES
    \* ---- render environment (EvtRender / EvtFormatMessage) ----
    events,    \* native event table: handle -> [need, probeErr, renderErr]
    last,      \* the last completed helper call: its native calls and result
    faulted,   \* TRUE once a helper has panicked (the process is gone)
    \* ---- subscriptions and dispatch ----
    logs,      \* channel -> [last, oldest]: records oldest..last are retained
    handles,   \* native handle table: handle value -> object
    sinks,     \* sink -> the PublishEvent / PublishError calls it received
    lastRet    \* what the last constructor, cancel, close or test helper
               \* returned, and the native subscribe calls it issued

rvars == <<events, last, faulted>>
dvars == <<logs, handles, sinks, lastRet>>
vars == <<events, last, faulted, logs, handles, sinks, lastRet>>

(***************************************************************************)
(* The native render calls.  A call with a buffer smaller than the size    *)
(* the event needs fails with ERROR_INSUFFICIENT_BUFFER and reports the    *)
(* needed size; a call on a handle the table does not hold fails with      *)
(* ERROR_INVALID_HANDLE and leaves *BufferUsed as the caller set it (0).   *)
(***************************************************************************)
EventHandles == 0..MaxEvents

\* what the native layer writes into a buffer of n units: text and a NUL
NativeData(n) == [i \in 1..n |-> IF i < n THEN 1 ELSE 0]

NativeRender(Fragment, Flags, BufferSize) ==
    IF Fragment \notin DOMAIN events
    THEN [err |-> InvalidHandle, BufferUsed |-> 0, PropertyCount |-> 0,
          data |-> Nil, BufferSize |-> BufferSize, Flags |-> Flags]
    ELSE LET e == events[Fragment] IN
         IF e.probeErr # NoError
         THEN [err |-> e.probeErr, BufferUsed |-> 0, PropertyCount |-> 0,
               data |-> Nil, BufferSize |-> BufferSize, Flags |-> Flags]
         ELSE IF BufferSize < e.need
         THEN [err |-> ERROR_INSUFFICIENT_BUFFER, BufferUsed |-> e.need,
               PropertyCount |-> 0, data |-> Nil,
               BufferSize |-> BufferSize, Flags |-> Flags]
         ELSE IF e.renderErr # NoError
         THEN [err |-> e.renderErr, BufferUsed |-> 0, PropertyCount |-> 0,
               data |-> Nil, BufferSize |-> BufferSize, Flags |-> Flags]
         ELSE [err |-> NoError, BufferUsed |-> e.need,
               PropertyCount |-> e.need, data |-> NativeData(e.need),
               BufferSize |-> BufferSize, Flags |-> Flags]

\* func EvtRender(Context, Fragment, Flags, BufferSize, Buffer, BufferUsed, PropertyCount)
EvtRender(Context, Fragment, Flags, BufferSize) ==
    NativeRender(Fragment, Flags, BufferSize)

\* func EvtFormatMessage(PublisherMetadata, Event, ..., Flags, BufferSize, Buffer, BufferUsed)
EvtFormatMessage(PublisherMetadata, Event, Flags, BufferSize) ==
    NativeRender(Event, Flags, BufferSize)

\* syscall.UTF16ToString: the units before the first NUL
RECURSIVE UTF16ToString(_)
UTF16ToString(buf) ==
    IF buf = <<>> \/ Head(buf) = 0 THEN <<>>
    ELSE <<Head(buf)>> \o UTF16ToString(Tail(buf))

\* NewEvtVariant(buffer): the rendered property buffer, wrapped
NewEvtVariant(buffer) == <<"EvtVariant", buffer>>

(***************************************************************************)
(* The two-phase helpers.  Each returns the (value, error) pair of the Go  *)
(* function, the native calls it made in order, and whether it panicked.   *)
(***************************************************************************)
Ret(op, h, calls, val, err, fault) ==
    [op |-> op, handle |-> h, calls |-> calls, val |-> val, err |-> err,
     fault |-> fault]

\* a bug a two-phase helper could have: returning the probe's error
RenderEventValues_ProbeErrFatal(renderContext, eventHandle) ==
    LET p == EvtRender(renderContext, eventHandle, EvtRenderEventValues, 0) IN
    IF p.err # NoError
    THEN Ret("RenderEventValues", eventHandle, <<p>>, Nil, p.err, FALSE)
    ELSE Ret("RenderEventValues", eventHandle, <<p>>, NewEvtVariant(p.data),
             NoError, FALSE)

RenderEventValues(renderContext, eventHandle) ==
    LET p == EvtRender(renderContext, eventHandle, EvtRenderEventValues, 0) IN
    IF p.BufferUsed = 0
    THEN Ret("RenderEventValues", eventHandle, <<p>>, Nil, p.err, FALSE)
    ELSE LET q == EvtRender(renderContext, eventHandle, EvtRenderEventValues,
                            p.BufferUsed) IN
         IF q.err # NoError
         THEN Ret("RenderEventValues", eventHandle, <<p, q>>, Nil, q.err, FALSE)
         ELSE Ret("RenderEventValues", eventHandle, <<p, q>>,
                  NewEvtVariant(q.data), NoError, FALSE)

RenderEventXML(eventHandle) ==
    LET p == EvtRender(0, eventHandle, EvtRenderEventXml, 0) IN
    IF p.BufferUsed = 0
    THEN Ret("RenderEventXML", eventHandle, <<p>>, Nil, p.err, FALSE)
    ELSE LET q == EvtRender(0, eventHandle, EvtRenderEventXml, p.BufferUsed) IN
         IF q.err # NoError
         THEN Ret("RenderEventXML", eventHandle, <<p, q>>, Nil, q.err, FALSE)
         ELSE Ret("RenderEventXML", eventHandle, <<p, q>>,
                  UTF16ToString(q.data), NoError, FALSE)

\* buf := make([]uint16, size); &buf[0] panics (index out of range) when
\* size = 0, before the second native call is made.
FormatMessage(eventPublisherHandle, eventHandle, format) ==
    LET p == EvtFormatMessage(eventPublisherHandle, eventHandle, format, 0) IN
    IF p.err # NoError /\ p.err # ERROR_INSUFFICIENT_BUFFER
    THEN Ret("FormatMessage", eventHandle, <<p>>, Nil, p.err, FALSE)
    ELSE IF p.BufferUsed = 0
    THEN Ret("FormatMessage", eventHandle, <<p>>, Nil, NoError, TRUE)
    ELSE LET q == EvtFormatMessage(eventPublisherHandle, eventHandle, format,
                                   p.BufferUsed) IN
         IF q.err # NoError
         THEN Ret("FormatMessage", eventHandle, <<p, q>>, Nil, q.err, FALSE)
         ELSE Ret("FormatMessage", eventHandle, <<p, q>>,
                  UTF16ToString(q.data), NoError, FALSE)

(***************************************************************************)
(* The render specification: the native layer holds events of every size   *)
(* and disposition, and the helpers are called on them (and on a handle    *)
(* the native layer does not hold).                                        *)
(***************************************************************************)
NoCall == Ret("none", 0, <<>>, Nil, NoError, FALSE)

RInit ==
    /\ events = <<>>
    /\ last = NoCall
    /\ faulted = FALSE

DInit ==
    /\ logs = [c \in Channels |-> [last |-> 0, oldest |-> 1]]
    /\ handles = <<>>
    /\ sinks = [k \in Sinks |-> <<>>]
    /\ lastRet = [op |-> "none", handle |-> 0, err |-> NoError, issued |-> {}]

Init == RInit /\ DInit

\* the native layer hands out one more event handle
NativeNewEvent ==
    /\ ~faulted
    /\ Len(events) < MaxEvents
    /\ \E need \in 0..MaxNeed, pe \in {NoError} \cup OtherErrnos,
          re \in {NoError} \cup OtherErrnos :
          events' = Append(events, [need |-> need, probeErr |-> pe,
                                    renderErr |-> re])
    /\ UNCHANGED <<last, faulted>>
    /\ UNCHANGED dvars

CallRenderEventValues ==
    /\ ~faulted
    /\ \E h \in EventHandles :
          last' = RenderEventValues(1, h)
    /\ faulted' = last'.fault
    /\ UNCHANGED events
    /\ UNCHANGED dvars

CallRenderEventXML ==
    /\ ~faulted
    /\ \E h \in EventHandles :
          last' = RenderEventXML(h)
    /\ faulted' = last'.fault
    /\ UNCHANGED events
    /\ UNCHANGED dvars

CallFormatMessage ==
    /\ ~faulted
    /\ \E h \in EventHandles :
          last' = FormatMessage(1, h, EvtFormatMessageEvent)
    /\ faulted' = last'.fault
    /\ UNCHANGED events
    /\ UNCHANGED dvars

RNext ==
    \/ NativeNewEvent
    \/ CallRenderEventValues
    \/ CallRenderEventXML
    \/ CallFormatMessage

SpecRender == Init /\ [][RNext]_vars

(***************************************************************************)
(* The native handle table.  A handle value is an index of the table; a    *)
(* value is never handed out twice.  Every object keeps the cancel and     *)
(* close calls made on it, with the function that made them.               *)
(***************************************************************************)
Max(a, b) == IF a >= b THEN a ELSE b

IsAllocated(T, h) == h \in DOMAIN T
IsLive(T, h) == IsAllocated(T, h) /\ T[h].state # "closed"
IsKind(T, h, kind) == IsAllocated(T, h) /\ T[h].kind = kind
HandlesOf(T, kind) == {h \in DOMAIN T : T[h].kind = kind}

\* no notification in flight
NoNotification == [action |-> EvtSubscribeActionError, handle |-> 0, live |-> FALSE]

\* func EvtClose(Object): releases a live handle; ERROR_INVALID_HANDLE on a
\* value that is no live handle, with nothing released.
EvtClose(T, Object, by) ==
    IF ~IsAllocated(T, Object)
    THEN [T |-> T, err |-> InvalidHandle]
    ELSE LET err == IF IsLive(T, Object) THEN NoError ELSE InvalidHandle IN
         [T |-> [T EXCEPT ![Object].state = "closed",
                          ![Object].calls =
                              Append(@, [op |-> "EvtClose", by |-> by, err |-> err])],
          err |-> err]

\* func EvtCancel(handle): stops new deliveries of a live subscription
EvtCancel(T, handle, by) ==
    IF ~IsAllocated(T, handle)
    THEN [T |-> T, err |-> InvalidHandle]
    ELSE LET err == IF IsLive(T, handle) THEN NoError ELSE InvalidHandle IN
         [T |-> [T EXCEPT ![handle].state =
                              IF T[handle].kind = "sub" /\ @ = "open"
                              THEN "cancelled" ELSE @,
                          ![handle].calls =
                              Append(@, [op |-> "EvtCancel", by |-> by, err |-> err])],
          err |-> err]

\* func EvtCreateBookmark(BookmarkXml): a bookmark that names a record
EvtCreateBookmark(T, BookmarkXml) ==
    [T |-> Append(T, [kind |-> "bookmark", state |-> "open", calls |-> <<>>,
                      channel |-> BookmarkXml.channel, pos |-> BookmarkXml.pos]),
     handle |-> Len(T) + 1, err |-> NoError]

\* EvtSubscribeStrict, the flag of the native API that makes a resume fail
\* when the bookmarked record is gone; the source never sets it
StrictBit == 65536 * 1
StartFlags == {EvtSubscribeToFutureEvents, EvtSubscribeStartAtOldestRecord,
               EvtSubscribeStartAfterBookmark}

\* the record a new subscription delivers first
StartPosition(T, ChannelPath, Bookmark, Flags) ==
    IF Flags % StrictBit = EvtSubscribeToFutureEvents
    THEN logs[ChannelPath].last + 1
    ELSE IF Flags % StrictBit = EvtSubscribeStartAtOldestRecord
    THEN logs[ChannelPath].oldest
    ELSE Max(T[Bookmark].pos + 1, logs[ChannelPath].oldest)

\* func EvtSubscribe(Session, SignalEvent, ChannelPath, Query, Bookmark,
\*                   context, Callback, Flags)
\* Without EvtSubscribeStrict a bookmark whose record is gone is no error:
\* the subscription starts at the closest retained record.
EvtSubscribe(T, ChannelPath, Query, Bookmark, context, Callback, Flags) ==
    IF ChannelPath \notin Channels
    THEN [T |-> T, handle |-> 0, err |-> Errno.ERROR_EVT_CHANNEL_NOT_FOUND]
    ELSE IF Flags % StrictBit \notin StartFlags
    THEN [T |-> T, handle |-> 0, err |-> InvalidParameter]
    ELSE IF Flags % StrictBit = EvtSubscribeStartAfterBookmark
            /\ ~(IsLive(T, Bookmark) /\ IsKind(T, Bookmark, "bookmark"))
    THEN [T |-> T, handle |-> 0, err |-> InvalidParameter]
    ELSE IF Flags = EvtSubscribeStartAfterBookmark + StrictBit
            /\ T[Bookmark].pos + 1 < logs[ChannelPath].oldest
    THEN [T |-> T, handle |-> 0, err |-> Errno.ERROR_NOT_FOUND]
    ELSE [T |-> Append(T,
                  [kind |-> "sub", state |-> "open", calls |-> <<>>,
                   channel |-> ChannelPath, query |-> Query, flags |-> Flags,
                   bookmark |-> Bookmark, callback |-> Callback,
                   start |-> StartPosition(T, ChannelPath, Bookmark, Flags),
                   next |-> StartPosition(T, ChannelPath, Bookmark, Flags),
                   pending |-> NoNotification, got |-> <<>>]),
          handle |-> Len(T) + 1, err |-> NoError]

\* syscall.UTF16PtrFromString: EINVAL when the string holds a NUL
UTF16PtrFromString(s) ==
    IF s = NulName THEN [ptr |-> "", err |-> Errno.EINVAL]
    ELSE [ptr |-> s, err |-> NoError]

\* uint32(startpos) of an EVT_SUBSCRIBE_FLAGS value: the flags are 1..3, which
\* the conversion leaves as they are
Uint32(x) == IF x >= 0 THEN x ELSE x + 2147483647 + 2147483647 + 2

(***************************************************************************)
(* The subscription constructors.  Each returns the (handle, error) pair,  *)
(* the new handle table and the native subscribe calls it issued.          *)
(***************************************************************************)
SubscribeCall(by, Bookmark, Flags) ==
    [by |-> by, Bookmark |-> Bookmark, Flags |-> Flags]

CreateListener(T, channel, query, startpos, watcher) ==
    LET wideChan == UTF16PtrFromString(channel)
        wideQuery == UTF16PtrFromString(query) IN
    IF wideChan.err # NoError
    THEN [T |-> T, handle |-> 0, err |-> wideChan.err, issued |-> {}]
    ELSE IF wideQuery.err # NoError
    THEN [T |-> T, handle |-> 0, err |-> wideQuery.err, issued |-> {}]
    ELSE LET r == EvtSubscribe(T, wideChan.ptr, wideQuery.ptr, 0, 0, watcher,
                               Uint32(startpos)) IN
         [T |-> r.T, handle |-> r.handle, err |-> r.err,
          issued |-> {SubscribeCall("CreateListener", 0, Uint32(startpos))}]

\* a bug the resuming constructor could have: the wrong start flag
CreateListenerFromBookmark_FromOldest(T, channel, query, watcher, bookmarkHandle) ==
    LET r == EvtSubscribe(T, channel, query, bookmarkHandle, 0, watcher,
                          Uint32(EvtSubscribeStartAtOldestRecord)) IN
    [T |-> r.T, handle |-> r.handle, err |-> r.err,
     issued |-> {SubscribeCall("CreateListenerFromBookmark", bookmarkHandle,
                               Uint32(EvtSubscribeStartAtOldestRecord))}]

\* a bug the resuming constructor could have: asking for a strict resume
CreateListenerFromBookmark_Strict(T, channel, query, watcher, bookmarkHandle) ==
    LET r == EvtSubscribe(T, channel, query, bookmarkHandle, 0, watcher,
                          Uint32(EvtSubscribeStartAfterBookmark + StrictBit)) IN
    [T |-> r.T, handle |-> r.handle, err |-> r.err,
     issued |-> {SubscribeCall("CreateListenerFromBookmark", bookmarkHandle,
                               Uint32(EvtSubscribeStartAfterBookmark + StrictBit))}]

CreateListenerFromBookmark(T, channel, query, watcher, bookmarkHandle) ==
    LET wideChan == UTF16PtrFromString(channel)
        wideQuery == UTF16PtrFromString(query) IN
    IF wideChan.err # NoError
    THEN [T |-> T, handle |-> 0, err |-> wideChan.err, issued |-> {}]
    ELSE IF wideQuery.err # NoError
    THEN [T |-> T, handle |-> 0, err |-> wideQuery.err, issued |-> {}]
    ELSE LET r == EvtSubscribe(T, wideChan.ptr, wideQuery.ptr, bookmarkHandle,
                               0, watcher,
                               Uint32(EvtSubscribeStartAfterBookmark)) IN
         [T |-> r.T, handle |-> r.handle, err |-> r.err,
          issued |-> {SubscribeCall("CreateListenerFromBookmark", bookmarkHandle,
                                    Uint32(EvtSubscribeStartAfterBookmark))}]

\* a bug a close wrapper could have: panicking on the native error
CloseEventHandle_PanicOnError(T, handle) ==
    LET r == EvtClose(T, handle, "CloseEventHandle") IN
    [T |-> r.T, err |-> r.err, fault |-> r.err # NoError]

\* func CloseEventHandle(handle uint64) error
CloseEventHandle(T, handle) ==
    LET r == EvtClose(T, handle, "CloseEventHandle") IN
    [T |-> r.T, err |-> r.err, fault |-> FALSE]

\* func CancelEventHandle(handle uint64) error
CancelEventHandle(T, handle) ==
    LET r == EvtCancel(T, handle, "CancelEventHandle") IN
    [T |-> r.T, err |-> r.err, fault |-> FALSE]

(***************************************************************************)
(* The trampoline: the sink call one notification produces.                *)
(***************************************************************************)
\* syscall.Errno(uintptr(handle)) and the error fmt.Errorf wraps it in
Errorf(format, errno) == [format |-> format, errno |-> errno]

\* a bug the trampoline could have: telling an error by the handle value
newEventCallback_ByHandleValue(context, action, ctx, handle) ==
    IF action = EvtSubscribeActionError \/ handle = 0
    THEN [sink |-> context.callback, method |-> "PublishError",
          err |-> Errorf("Event log callback got error: %v", handle)]
    ELSE [sink |-> context.callback, method |-> "PublishEvent",
          handle |-> handle, channel |-> context.subscribedChannel]

\* a bug the trampoline could have: the two notification kinds swapped
newEventCallback_KindsSwapped(context, action, ctx, handle) ==
    IF action = EvtSubscribeActionDeliver
    THEN [sink |-> context.callback, method |-> "PublishError",
          err |-> Errorf("Event log callback got error: %v", handle)]
    ELSE [sink |-> context.callback, method |-> "PublishEvent",
          handle |-> handle, channel |-> context.subscribedChannel]

\* a bug the trampoline could have: one context shared by every
\* subscription, so that each callback sees the wrapper registered last
newEventCallback_SharedContext(context, action, ctx, handle) ==
    LET latest == CHOOSE s \in HandlesOf(handles, "sub") :
                      \A t \in HandlesOf(handles, "sub") : t <= s
        shared == handles[latest].callback IN
    IF action = EvtSubscribeActionError
    THEN [sink |-> shared.callback, method |-> "PublishError",
          err |-> Errorf("Event log callback got error: %v", handle)]
    ELSE [sink |-> shared.callback, method |-> "PublishEvent",
          handle |-> handle, channel |-> shared.subscribedChannel]

newEventCallback(context, action, ctx, handle) ==
    IF action = EvtSubscribeActionError
    THEN [sink |-> context.callback, method |-> "PublishError",
          err |-> Errorf("Event log callback got error: %v", handle)]
    ELSE [sink |-> context.callback, method |-> "PublishEvent",
          handle |-> handle, channel |-> context.subscribedChannel]

\* the LogEventCallbackWrapper the subscribing caller builds for a sink
LogEventCallbackWrapper(callback, subscribedChannel) ==
    [callback |-> callback, subscribedChannel |-> subscribedChannel]

(***************************************************************************)
(* getTestEventHandle.  nat is what the native layer answers to the query  *)
(* and to the batch fetch of this call (an errno, or NoError).             *)
(***************************************************************************)
\* func EvtQuery(Session, Path, Query, Flags): a result set over a channel
EvtQuery(T, Path, Query, Flags, answer) ==
    IF answer # NoError THEN [T |-> T, handle |-> 0, err |-> answer]
    ELSE IF Path \notin Channels
    THEN [T |-> T, handle |-> 0, err |-> Errno.ERROR_EVT_CHANNEL_NOT_FOUND]
    ELSE [T |-> Append(T, [kind |-> "query", state |-> "open", calls |-> <<>>,
                           channel |-> Path, next |-> logs[Path].oldest]),
          handle |-> Len(T) + 1, err |-> NoError]

\* func EvtNext(ResultSet, EventArraySize, EventArray, Timeout, Flags, Returned)
\* with EventArraySize = 1: the next record's handle, ERROR_NO_MORE_ITEMS
\* at the end of the result set, or ERROR_TIMEOUT.
EvtNext(T, ResultSet, Timeout, answer) ==
    IF ~(IsLive(T, ResultSet) /\ IsKind(T, ResultSet, "query"))
    THEN [T |-> T, record |-> 0, err |-> InvalidHandle]
    ELSE IF answer # NoError THEN [T |-> T, record |-> 0, err |-> answer]
    ELSE IF T[ResultSet].next > logs[T[ResultSet].channel].last
    THEN [T |-> T, record |-> 0, err |-> Errno.ERROR_NO_MORE_ITEMS]
    ELSE [T |-> Append([T EXCEPT ![ResultSet].next = @ + 1],
                       [kind |-> "event", state |-> "open", calls |-> <<>>,
                        channel |-> T[ResultSet].channel,
                        pos |-> T[ResultSet].next, sub |-> 0]),
          record |-> Len(T) + 1, err |-> NoError]

\* a bug the test helper could have: no close on the failure path
getTestEventHandle_LeakOnError(T, nat) ==
    LET q == EvtQuery(T, "Application", "*", EvtQueryChannelPath, nat.query) IN
    IF q.err # NoError
    THEN [T |-> T, handle |-> 0, err |-> q.err, resultSet |-> 0]
    ELSE LET n == EvtNext(q.T, q.handle, 500, nat.next) IN
         IF n.err # NoError
         THEN [T |-> n.T, handle |-> 0, err |-> NoError, resultSet |-> q.handle]
         ELSE [T |-> EvtClose(n.T, q.handle, "getTestEventHandle").T,
               handle |-> n.record, err |-> NoError, resultSet |-> q.handle]

getTestEventHandle(T, nat) ==
    LET q == EvtQuery(T, "Application", "*", EvtQueryChannelPath, nat.query) IN
    IF q.err # NoError
    THEN [T |-> T, handle |-> 0, err |-> q.err, resultSet |-> 0]
    ELSE LET n == EvtNext(q.T, q.handle, 500, nat.next) IN
         IF n.err # NoError
         THEN [T |-> EvtClose(n.T, q.handle, "getTestEventHandle").T,
               handle |-> 0, err |-> NoError, resultSet |-> q.handle]
         ELSE [T |-> EvtClose(n.T, q.handle, "getTestEventHandle").T,
               handle |-> n.record, err |-> NoError, resultSet |-> q.handle]

(***************************************************************************)
(* Actions.                                                                *)
(***************************************************************************)
Subs == HandlesOf(handles, "sub")
RetOf(op, handle, err, issued) ==
    [op |-> op, handle |-> handle, err |-> err, issued |-> issued]
Appended == logs["Application"].last + logs["System"].last
Notified == Cardinality({h \in Subs : handles[h].pending.live})
            + Len(sinks["sinkA"]) + Len(sinks["sinkB"])

\* the service appends a record to a channel
AppendTo(channels) ==
    /\ Appended < MaxRec
    /\ \E c \in channels : logs' = [logs EXCEPT ![c].last = @ + 1]
    /\ UNCHANGED <<handles, sinks, lastRet>>
    /\ UNCHANGED rvars

NativeAppend == AppendTo(Channels)

\* retention evicts the oldest record of a channel
NativeTruncate ==
    /\ \E c \in Channels :
          /\ logs[c].oldest <= logs[c].last
          /\ logs' = [logs EXCEPT ![c].oldest = @ + 1]
    /\ UNCHANGED <<handles, sinks, lastRet>>
    /\ UNCHANGED rvars

\* subscribe(channel, query, startPosition, sink): the caller wraps the sink
\* with the channel it subscribes to and calls CreateListener
SubscribeWith(channels, sinkSet, flagSet) ==
    /\ Len(handles) < MaxHandles
    /\ \E channel \in channels, sink \in sinkSet, startpos \in flagSet :
          LET r == CreateListener(handles, channel, "*", startpos,
                                  LogEventCallbackWrapper(sink, channel)) IN
          /\ handles' = r.T
          /\ lastRet' = RetOf("CreateListener", r.handle, r.err, r.issued)
    /\ UNCHANGED <<logs, sinks>>
    /\ UNCHANGED rvars

Subscribe ==
    /\ Cardinality(Subs) < MaxSubs
    /\ SubscribeWith(ChannelInputs, {"sinkA"}, StartFlags)

\* subscribe(channel, query, resumeBookmark, sink): the caller restores the
\* persisted bookmark of a record the channel has held, wraps the sink and
\* calls CreateListenerFromBookmark
SubscribeFromBookmark ==
    /\ Len(handles) + 1 < MaxHandles
    /\ Cardinality(Subs) < MaxSubs
    /\ \E channel \in Channels, sink \in {"sinkA"} :
       \E pos \in 1..logs[channel].last :
          LET b == EvtCreateBookmark(handles, [channel |-> channel, pos |-> pos])
              r == CreateListenerFromBookmark(b.T, channel, "*",
                       LogEventCallbackWrapper(sink, channel), b.handle) IN
          /\ handles' = r.T
          /\ lastRet' = RetOf("CreateListenerFromBookmark", r.handle, r.err,
                              r.issued)
    /\ UNCHANGED <<logs, sinks>>
    /\ UNCHANGED rvars

\* the record the native layer delivers next to subscription s
NextRecord(s) == Max(handles[s].next, logs[handles[s].channel].oldest)

\* the native layer starts the callback of s with the next record, in log
\* order; callbacks of one subscription do not overlap
NativeDeliver ==
    /\ Len(handles) < MaxHandles
    /\ \E s \in Subs :
          /\ handles[s].state = "open"
          /\ ~handles[s].pending.live
          /\ NextRecord(s) <= logs[handles[s].channel].last
          /\ handles' = Append(
                [handles EXCEPT ![s].next = NextRecord(s) + 1,
                                ![s].pending =
                                    [action |-> EvtSubscribeActionDeliver,
                                     handle |-> Len(handles) + 1,
                                     live |-> TRUE]],
                [kind |-> "event", state |-> "open", calls |-> <<>>,
                 channel |-> handles[s].channel, pos |-> NextRecord(s),
                 sub |-> s])
    /\ UNCHANGED <<logs, sinks, lastRet>>
    /\ UNCHANGED rvars

\* the trampoline of s runs on the notification it was started with
Callback ==
    /\ \E s \in Subs :
          /\ handles[s].pending.live
          /\ LET n == handles[s].pending
                 call == newEventCallback(handles[s].callback, n.action, 0,
                                          n.handle) IN
             /\ sinks' = [sinks EXCEPT ![call.sink] =
                                       Append(@, [call |-> call, sub |-> s])]
             /\ handles' = [handles EXCEPT
                               ![s].pending = NoNotification,
                               ![s].got = Append(@, [action |-> n.action,
                                                     handle |-> n.handle])]
    /\ UNCHANGED <<logs, lastRet>>
    /\ UNCHANGED rvars

Next ==
    \/ NativeAppend
    \/ NativeTruncate
    \/ Subscribe
    \/ SubscribeFromBookmark
    \/ NativeDeliver
    \/ Callback

Spec == Init /\ [][Next]_vars

(***************************************************************************)
(* The bridge specification: several subscriptions, each with its own      *)
(* trampoline, and the native layer starting them with every kind of       *)
(* notification and every value in the handle slot, in every interleaving. *)
(***************************************************************************)
\* the values the native layer puts in the handle slot
HandleSlotValues == {0, AccessDenied}

BridgeSubscribe ==
    /\ Cardinality(Subs) < MaxBridgeSubs
    /\ SubscribeWith(Channels, Sinks, {EvtSubscribeToFutureEvents})

NativeInvoke ==
    /\ Notified < MaxNotify
    /\ \E s \in Subs :
       \E action \in {EvtSubscribeActionError, EvtSubscribeActionDeliver},
          handle \in HandleSlotValues :
          /\ handles[s].state = "open"
          /\ ~handles[s].pending.live
          /\ handles' = [handles EXCEPT
                            ![s].pending = [action |-> action,
                                            handle |-> handle, live |-> TRUE]]
    /\ UNCHANGED <<logs, sinks, lastRet>>
    /\ UNCHANGED rvars

BridgeNext ==
    \/ BridgeSubscribe
    \/ NativeInvoke
    \/ Callback

SpecBridge == Init /\ [][BridgeNext]_vars

(***************************************************************************)
(* The handle specification: subscription and event handles are handed     *)
(* out, and cancelled and closed in every order, any number of times.      *)
(***************************************************************************)
HandleSubscribe ==
    /\ Cardinality(Subs) < MaxSubs
    /\ SubscribeWith({"Application"}, {"sinkA"},
                     {EvtSubscribeStartAtOldestRecord})

\* the cancel and close calls the consumer has made on handles handed out
RECURSIVE ConsumerCalls(_)
ConsumerCalls(T) ==
    IF T = <<>> THEN 0
    ELSE Cardinality({i \in DOMAIN Head(T).calls :
                         Head(T).calls[i].by # "getTestEventHandle"})
         + ConsumerCalls(Tail(T))

\* CancelEventHandle on any handle value, live, released or never handed out
Cancel ==
    /\ ConsumerCalls(handles) < MaxCalls
    /\ \E h \in 0..MaxHandles :
          LET r == CancelEventHandle(handles, h) IN
             /\ handles' = r.T
             /\ lastRet' = [op |-> "CancelEventHandle", handle |-> h,
                            err |-> r.err, issued |-> {}, fault |-> r.fault]
    /\ UNCHANGED <<logs, sinks>>
    /\ UNCHANGED rvars

\* CloseEventHandle on any handle value
Close ==
    /\ ConsumerCalls(handles) < MaxCalls
    /\ \E h \in 0..MaxHandles :
          LET r == CloseEventHandle(handles, h) IN
             /\ handles' = r.T
             /\ lastRet' = [op |-> "CloseEventHandle", handle |-> h,
                            err |-> r.err, issued |-> {}, fault |-> r.fault]
    /\ UNCHANGED <<logs, sinks>>
    /\ UNCHANGED rvars

\* getTestEventHandle, under every answer of the native layer
CallGetTestEventHandle ==
    /\ Len(handles) + 1 < MaxHandles
    /\ \E qa \in {NoError, AccessDenied}, na \in {NoError, Errno.ERROR_TIMEOUT} :
          LET r == getTestEventHandle(handles, [query |-> qa, next |-> na]) IN
          /\ handles' = r.T
          /\ lastRet' = [op |-> "getTestEventHandle", handle |-> r.handle,
                         err |-> r.err, issued |-> {},
                         resultSet |-> r.resultSet]
    /\ UNCHANGED <<logs, sinks>>
    /\ UNCHANGED rvars

\* the handle specification needs few records: one event handle per record
HandleAppend ==
    /\ logs["Application"].last < MaxEvents
    /\ AppendTo({"Application"})

HandleDeliver ==
    /\ Cardinality(HandlesOf(handles, "event")) < MaxEvents
    /\ NativeDeliver

TestAppend == AppendTo({"Application"})

HandleNext ==
    \/ HandleSubscribe
    \/ HandleAppend
    \/ HandleDeliver
    \/ Callback
    \/ Cancel
    \/ Close

SpecHandles == Init /\ [][HandleNext]_vars

(***************************************************************************)
(* The test-helper specification: getTestEventHandle beside a tailing      *)
(* subscription.                                                           *)
(***************************************************************************)
TestSubscribe ==
    /\ Cardinality(Subs) < MaxSubs
    /\ SubscribeWith({"Application"}, {"sinkA"},
                     {EvtSubscribeStartAtOldestRecord})

TestNext ==
    \/ TestAppend
    \/ TestSubscribe
    \/ NativeDeliver
    \/ Callback
    \/ CallGetTestEventHandle

SpecTest == Init /\ [][TestNext]_vars

(***************************************************************************)
(* Properties.                                                             *)
(***************************************************************************)
\* the handle values of the table, in ascending order
HandleSeq == [i \in 1..Len(handles) |-> i]

\* the event handles the native layer has made for subscription s, in the
\* order it made them
EventsOf(s) ==
    LET IsMine(h) == handles[h].kind = "event" /\ handles[h].sub = s IN
    SelectSeq(HandleSeq, IsMine)

\* those of them whose callback has returned
Delivered(s) ==
    LET IsDone(h) == ~(handles[s].pending.live
                       /\ handles[s].pending.action = EvtSubscribeActionDeliver
                       /\ handles[s].pending.handle = h) IN
    SelectSeq(EventsOf(s), IsDone)

\* the sink the subscription was registered with
RegisteredSink(s) == handles[s].callback.callback

\* the calls subscription s has made on sink k, in order
CallsOn(k, s) ==
    LET IsFrom(e) == e.sub = s IN SelectSeq(sinks[k], IsFrom)

CallsOf(s) == CallsOn(RegisteredSink(s), s)

PublishedEvents(s) ==
    LET IsEvent(e) == e.call.method = "PublishEvent" IN
    SelectSeq(CallsOf(s), IsEvent)

AllCallsFrom(s) == Len(CallsOn("sinkA", s)) + Len(CallsOn("sinkB", s))

\* C1: every notification a trampoline has run on produced exactly one sink
\* call, chosen by the notification kind alone: an error notification one
\* PublishError with the code of the handle slot, a deliver notification one
\* PublishEvent with the handle, whatever the handle's value.
C1_OneCallByKind ==
    \A s \in Subs :
        /\ AllCallsFrom(s) = Len(handles[s].got)
        /\ Len(CallsOf(s)) = Len(handles[s].got)
        /\ \A i \in DOMAIN handles[s].got :
              LET n == handles[s].got[i]
                  c == CallsOf(s)[i].call IN
              IF n.action = EvtSubscribeActionError
              THEN /\ c.method = "PublishError"
                   /\ c.err.errno = n.handle
              ELSE /\ c.method = "PublishEvent"
                   /\ c.handle = n.handle

\* an access-denied error notification and a deliver notification whose handle
\* value is 0 or the access-denied code have both gone through a trampoline
C1_Witness ==
    \E s \in Subs, t \in Subs :
        /\ \E i \in DOMAIN handles[s].got :
              /\ handles[s].got[i].action = EvtSubscribeActionError
              /\ handles[s].got[i].handle = AccessDenied
              /\ CallsOf(s)[i].call.method = "PublishError"
        /\ \E j \in DOMAIN handles[t].got :
              /\ handles[t].got[j].action = EvtSubscribeActionDeliver
              /\ handles[t].got[j].handle \in {0, AccessDenied}
              /\ CallsOf(t)[j].call.method = "PublishEvent"

\* C2: the PublishEvent calls a subscription's sink has observed are exactly
\* the records the native layer delivered to it, in the order delivered (log
\* order), each with the channel the subscription was registered with: none
\* dropped, duplicated or reordered.
C2_DeliveredInOrder ==
    \A s \in Subs :
        LET made == EventsOf(s)
            done == Delivered(s)
            seen == PublishedEvents(s) IN
        /\ Len(seen) = Len(done)
        /\ AllCallsFrom(s) = Len(done)
        /\ \A i \in DOMAIN done :
              /\ seen[i].call.handle = done[i]
              /\ seen[i].call.channel = handles[s].channel
        /\ \A i \in DOMAIN made : \A j \in DOMAIN made :
              i < j => handles[made[i]].pos < handles[made[j]].pos

\* a future-only subscription to "Application" whose sink has observed the
\* three records appended after it was opened
C2_Witness ==
    \E s \in Subs :
        /\ handles[s].flags = EvtSubscribeToFutureEvents
        /\ handles[s].channel = "Application"
        /\ handles[s].start = 1
        /\ Len(PublishedEvents(s)) = 3
        /\ \A i \in 1..3 : handles[PublishedEvents(s)[i].call.handle].pos = i

\* C3: every call a sink has received came from a subscription registered
\* with that sink, and carries that subscription's channel.
C3_RoutedToOwnSink ==
    \A k \in Sinks : \A i \in DOMAIN sinks[k] :
        LET e == sinks[k][i] IN
        /\ k = RegisteredSink(e.sub)
        /\ e.call.method = "PublishEvent" =>
               e.call.channel = handles[e.sub].channel

\* two open subscriptions with different sinks and different channels have
\* each had an event forwarded to its sink
C3_Witness ==
    \E s \in Subs, t \in Subs :
        /\ s < t
        /\ RegisteredSink(s) # RegisteredSink(t)
        /\ handles[s].channel # handles[t].channel
        /\ Len(CallsOf(s)) = 1
        /\ Len(CallsOf(t)) = 1
        /\ CallsOf(s)[1].call.method = "PublishEvent"
        /\ CallsOf(t)[1].call.method = "PublishEvent"

\* C4: in RenderEventValues and RenderEventXML a probe that reports
\* insufficient buffer reports a usable size, is never what the helper
\* returns, and is followed by one render call with a buffer of that size,
\* whose result alone is the helper's result.
C4_ProbeAbsorbed ==
    (last.op \in {"RenderEventValues", "RenderEventXML"}
     /\ last.calls[1].err = ERROR_INSUFFICIENT_BUFFER) =>
        /\ ~last.fault
        /\ last.calls[1].BufferSize = 0
        /\ last.calls[1].BufferUsed > 0
        /\ Len(last.calls) = 2
        /\ last.calls[2].BufferSize = last.calls[1].BufferUsed
        /\ last.err = last.calls[2].err

\* both helpers' outcomes after an insufficient-buffer probe: here the
\* second call of RenderEventValues has succeeded
C4_Witness ==
    /\ last.op = "RenderEventValues"
    /\ last.calls[1].err = ERROR_INSUFFICIENT_BUFFER
    /\ Len(last.calls) = 2
    /\ last.err = NoError

\* a step that is a cancel or close call of the consumer, on handle
\* lastRet'.handle: the native layer has logged one more consumer call, or
\* (for a value never handed out) the call's result has been recorded
IsCancelOrCloseStep ==
    /\ lastRet'.op \in {"CancelEventHandle", "CloseEventHandle"}
    /\ (ConsumerCalls(handles') > ConsumerCalls(handles) \/ lastRet' # lastRet)

\* C5: no cancel or close call faults, in any order and any number of times;
\* each leaves every other handle as it was, and a call on a released handle
\* (or on a value never handed out) returns an error and changes no handle's
\* state.
C5_CancelCloseIdempotent ==
    [][IsCancelOrCloseStep =>
         /\ ~lastRet'.fault
         /\ DOMAIN handles' = DOMAIN handles
         /\ \A g \in DOMAIN handles :
               g # lastRet'.handle => handles'[g] = handles[g]
         /\ \A g \in DOMAIN handles :
               handles[g].state = "closed" => handles'[g].state = "closed"
         /\ (~IsLive(handles, lastRet'.handle)) =>
               /\ lastRet'.err # NoError
               /\ \A g \in DOMAIN handles : handles'[g].state = handles[g].state
      ]_vars

\* the calls made on handle h, as <<operation, error>> pairs
CallLog(h) ==
    [i \in DOMAIN handles[h].calls |->
        <<handles[h].calls[i].op, handles[h].calls[i].err>>]

\* cancel; close; close has been run on a subscription, the second close
\* returning an error, while an event handle it had delivered stayed open
C5_Witness ==
    \E s \in Subs, t \in HandlesOf(handles, "event") :
        /\ CallLog(s) = <<<<"EvtCancel", NoError>>, <<"EvtClose", NoError>>,
                          <<"EvtClose", InvalidHandle>>>>
        /\ handles[s].state = "closed"
        /\ handles[t].sub = s
        /\ handles[t].state = "open"
        /\ handles[t].calls = <<>>
        /\ lastRet.op = "CloseEventHandle"
        /\ lastRet.handle = s
        /\ ~lastRet.fault

\* the subscriptions resumed from a bookmark, on a channel no record of which
\* has been evicted
ResumedUntruncated ==
    {s \in Subs : /\ handles[s].bookmark # 0
                  /\ logs[handles[s].channel].oldest = 1}

Clamped(s) ==
    /\ handles[s].bookmark # 0
    /\ handles[s].start > handles[handles[s].bookmark].pos + 1

\* the error taxonomy of the value an errno stands for
Taxonomy(errno) ==
    IF errno = NoError THEN "none"
    ELSE IF errno = AccessDenied THEN "AccessDenied"
    ELSE IF errno = Errno.ERROR_NOT_FOUND THEN "ResourceNotFound"
    ELSE IF errno = Errno.ERROR_EVT_CHANNEL_NOT_FOUND THEN "ResourceNotFound"
    ELSE "Fatal"

\* everything the constructor and the bridge have told the consumer about s:
\* the constructor's error and the errors handed to the sink
ReportsOf(s) ==
    LET told == CallsOf(s) IN
    {Taxonomy(lastRet.err) : h \in {lastRet.handle} \cap {s}}
    \cup {Taxonomy(told[i].call.err.errno) :
             i \in {j \in DOMAIN told : told[j].call.method = "PublishError"}}

\* what a resume from an evicted bookmark target does in the current state
ResumeNow(channel, pos) ==
    LET b == EvtCreateBookmark(handles, [channel |-> channel, pos |-> pos]) IN
    CreateListenerFromBookmark(b.T, channel, "*",
        LogEventCallbackWrapper("sinkA", channel), b.handle)

C8_BookmarkIffResumeFlag ==
    \A c \in lastRet.issued :
        (c.Bookmark # 0) <=> (c.Flags = EvtSubscribeStartAfterBookmark)

\* the result sets getTestEventHandle has opened
ResultSets == HandlesOf(handles, "query")

ClosesBy(h, by) ==
    Cardinality({i \in DOMAIN handles[h].calls :
                    /\ handles[h].calls[i].op = "EvtClose"
                    /\ handles[h].calls[i].by = by})

\* C9: getTestEventHandle has closed every result set it opened exactly
\* once, whether the fetch failed or succeeded; the event handle it returned,
\* and every event handle a trampoline forwarded to a sink, has not been
\* closed.
C9_ReleasedExactlyOnce ==
    /\ \A q \in ResultSets :
          /\ ClosesBy(q, "getTestEventHandle") = 1
          /\ handles[q].state = "closed"
    /\ (lastRet.op = "getTestEventHandle" /\ lastRet.handle # 0) =>
          /\ handles[lastRet.handle].kind = "event"
          /\ handles[lastRet.handle].state = "open"
          /\ handles[lastRet.handle].calls = <<>>
    /\ \A k \in Sinks : \A i \in DOMAIN sinks[k] :
          sinks[k][i].call.method = "PublishEvent" =>
              /\ handles[sinks[k][i].call.handle].state = "open"
              /\ handles[sinks[k][i].call.handle].calls = <<>>

\* getTestEventHandle has run with a successful fetch and with a fetch that
\* failed or timed out, and a trampoline has forwarded an event
C9_Witness ==
    /\ lastRet.op = "getTestEventHandle"
    /\ lastRet.resultSet # 0
    /\ lastRet.handle = 0
    /\ \E q \in ResultSets :
          /\ IsKind(handles, q + 1, "event")
          /\ handles[q + 1].sub = 0
    /\ \E k \in Sinks : \E i \in DOMAIN sinks[k] :
          sinks[k][i].call.method = "PublishEvent"

\* C10: FormatMessage never faults; a probe error other than insufficient
\* buffer is returned unchanged with no second native call; any other probe is
\* followed by exactly one second call with a buffer of the reported size.
C10_FormatMessageTotal ==
    last.op = "FormatMessage" =>
        /\ ~last.fault
        /\ IF last.calls[1].err \notin {NoError, ERROR_INSUFFICIENT_BUFFER}
           THEN /\ Len(last.calls) = 1
                /\ last.err = last.calls[1].err
           ELSE /\ Len(last.calls) = 2
                /\ last.calls[2].BufferSize = last.calls[1].BufferUsed
                /\ last.err = last.calls[2].err

====
